---- MODULE Spec2Model ----
(***************************************************************************)
(* genfft: translation of FFTW codelet schedules ("(:= T1 (+ xi[0] ...))") *)
(* into Go source.  Two generations of the program are modelled:           *)
(*   - genfft.go: Expression.Parse / Expression.String / TransformLength   *)
(*     and main, working on characters;                                    *)
(*   - the participle/jennifer program: Expr, Expr.Inputs, Expr.Gen,       *)
(*     Program.Gen and main, working on tokens.                            *)
(* A Go string is a sequence of one-character strings; "" is << >>.        *)
(***************************************************************************)
EXTENDS Integers, Sequences, FiniteSets, TLC

VARIABLES pc,        \* position of the run
          line,      \* the schedule line being translated
          expr,      \* genfft.go: the Expression tree built by Parse
          strOut,    \* genfft.go: the text returned by Expression.String
          stmt,      \* new program: the Expr participle builds for the line
          genOut,    \* new program: the tokens Expr.Gen renders
          alst,      \* the schedule file: a sequence of lines
          cout,      \* the companion C output: a sequence of lines
          old,       \* genfft.go main: its variables and its outcome
          new        \* new program main: prog and its outcome

vars == <<pc, line, expr, strOut, stmt, genOut, alst, cout, old, new>>

---------------------------------------------------------------------------
(* Bounds of the model.                                                    *)

\* Largest number of nodes (operations and leaves) of a statement's value.
MaxNodes == 6
\* Largest number of operands of one operation.
MaxArity == 3
\* Largest number of schedule lines of a program.
MaxLines == 2
\* Largest number of lines of the companion C output.
MaxCout == 2

---------------------------------------------------------------------------
(* Strings.                                                                *)

Digit == {"0", "1", "2", "3", "4", "5", "6", "7", "8", "9"}

Lower == {"a", "b", "c", "d", "e", "f", "g", "h", "i", "j", "k", "l", "m",
          "n", "o", "p", "q", "r", "s", "t", "u", "v", "w", "x", "y", "z"}

Upper == {"A", "B", "C", "D", "E", "F", "G", "H", "I", "J", "K", "L", "M",
          "N", "O", "P", "Q", "R", "S", "T", "U", "V", "W", "X", "Y", "Z"}

Letter == Lower \cup Upper

\* strings.HasPrefix
HasPrefix(s, p) == Len(s) >= Len(p) /\ SubSeq(s, 1, Len(p)) = p

\* strings.HasSuffix
HasSuffix(s, p) == Len(s) >= Len(p) /\ SubSeq(s, Len(s) - Len(p) + 1, Len(s)) = p

\* strings.IndexByte: the 0-based index of the first c in s, or -1.
IndexByte(s, c) ==
    IF \E i \in 1..Len(s) : s[i] = c
    THEN (CHOOSE i \in 1..Len(s) : s[i] = c /\ \A j \in 1..(i - 1) : s[j] # c) - 1
    ELSE -1

DigitVal(c) ==
    CASE c = "0" -> 0 [] c = "1" -> 1 [] c = "2" -> 2 [] c = "3" -> 3
      [] c = "4" -> 4 [] c = "5" -> 5 [] c = "6" -> 6 [] c = "7" -> 7
      [] c = "8" -> 8 [] c = "9" -> 9

RECURSIVE DecimalValue(_)
DecimalValue(s) ==
    IF s = << >> THEN 0
    ELSE 10 * DecimalValue(SubSeq(s, 1, Len(s) - 1)) + DigitVal(s[Len(s)])

\* strconv.ParseUint(s, 10, 64): an error unless s is one or more digits (the
\* indices of the model stay far below 2^64).
ParseUint(s) ==
    IF s # << >> /\ \A i \in 1..Len(s) : s[i] \in Digit
    THEN [err |-> FALSE, n |-> DecimalValue(s)]
    ELSE [err |-> TRUE, n |-> 0]

RECURSIVE Flatten(_)
Flatten(ss) == IF ss = << >> THEN << >> ELSE Head(ss) \o Flatten(Tail(ss))

---------------------------------------------------------------------------
(* genfft.go: Expression.                                                  *)

\* new(Expression)
NewExpression == [Op |-> << >>, Lit |-> << >>, OpIdx |-> 0, Expr |-> << >>]

IsUnary(e) == Len(e.Expr) = 1

RECURSIVE parse(_, _)
RECURSIVE parseLoop(_, _, _)

\* A return at ")" that would not count the ")" itself.
returnBeforeClose(idx) == idx

\* `return idx + 1` of `case ')'`: the characters consumed, the ")" included.
returnAtClose(idx) == idx + 1

\* The first statement of parse: the node gets its first operand.
parseEntry(e) == [e EXCEPT !.Expr = Append(@, NewExpression)]

\* A space that would open the new operand ahead of the earlier ones.
parseSpacePrepend(e) == [e EXCEPT !.Expr = <<NewExpression>> \o @, !.OpIdx = @ + 1]

\* The operand order of the loop body's `case ' '`: a new operand is appended.
parseSpace(e) == [e EXCEPT !.Expr = Append(@, NewExpression), !.OpIdx = @ + 1]

\* The for loop of parse, at 0-based index idx of line; the result is the
\* expression and the value parse returns.
parseLoop(e, ln, idx) ==
    IF idx >= Len(ln) THEN [e |-> e, idx |-> idx]
    ELSE LET c == ln[idx + 1]
             cur == e.OpIdx + 1
         IN CASE c = "(" ->
                   LET r == parse(e.Expr[cur], SubSeq(ln, idx + 2, Len(ln)))
                   IN parseLoop([e EXCEPT !.Expr[cur] = r.e], ln, idx + r.idx + 1)
              [] c = ":" -> parseLoop(e, ln, idx + 1)
              [] c \in {"=", "+", "-", "*"} ->
                   parseLoop([e EXCEPT !.Op = <<c>>], ln, idx + 2)
              [] c = " " -> parseLoop(parseSpace(e), ln, idx + 1)
              [] c = ")" -> [e |-> e, idx |-> returnAtClose(idx)]
              [] OTHER ->
                   parseLoop([e EXCEPT !.Expr[cur].Lit = Append(@, c)], ln, idx + 1)

parse(e, ln) == parseLoop(parseEntry(e), ln, 0)

\* Expression.Parse: skips "(:"; line[2:] panics on a line shorter than that.
ParsePanics(ln) == Len(ln) < 2

Parse(ln) == parse(NewExpression, SubSeq(ln, 3, Len(ln))).e

\* A depth test that would also wrap the operations right below the root.
NeedsParensBelowRoot(depth) == depth > 0

\* `if depth > 1`: the node is wrapped in parentheses.
NeedsParens(depth) == depth > 1

\* The operator a node is printed with: "=" becomes ":=" for a T target.
AssignOp(e) ==
    IF e.Op = <<"=">> /\ HasPrefix(e.Expr[1].Lit, <<"T">>) THEN <<":", "=">> ELSE e.Op

\* Operand idx (1-based, not the first) of an addition is a unary subtraction.
FoldsMinus(op, sub) == op = <<"+">> /\ IsUnary(sub) /\ sub.Op = <<"-">>

RECURSIVE stringHelper(_, _)
RECURSIVE stringOperands(_, _, _, _)

\* The text of the first k operands of a non-unary node, as the loop builds it.
stringOperands(e, op, depth, k) ==
    IF k = 0 THEN << >>
    ELSE LET sub == e.Expr[k]
             before == stringOperands(e, op, depth, k - 1)
         IN IF k = 1 THEN stringHelper(sub, depth + 1)
            ELSE IF FoldsMinus(op, sub)
                 THEN before \o <<"-">> \o stringHelper(sub.Expr[1], depth + 1)
                 ELSE before \o op \o stringHelper(sub, depth + 1)

stringHelper(e, depth) ==
    IF e.Op = << >> THEN e.Lit
    ELSE LET op == AssignOp(e)
             body == IF IsUnary(e)
                     THEN op \o stringHelper(e.Expr[1], depth + 1)
                     ELSE stringOperands(e, op, depth, Len(e.Expr))
         IN IF NeedsParens(depth) THEN <<"(">> \o body \o <<")">> ELSE body

\* Expression.String
String(e) == stringHelper(e, 0)

---------------------------------------------------------------------------
(* New program: the lexer rules and the grammar of Expr.                   *)

Token(t, v) == [type |-> t, value |-> v]

IdChar == Letter \cup Digit \cup {"_"}

RECURSIVE RunEnd(_, _, _)
\* The last index of the longest run of characters of class from index i
\* (i - 1 when there is none).
RunEnd(s, i, class) ==
    IF i <= Len(s) /\ s[i] \in class THEN RunEnd(s, i + 1, class) ELSE i - 1

\* Rule Id, `[a-zA-Z][a-zA-Z0-9_]*(\[\d+\])?`, at a letter at index i: the
\* index of the last character matched.
IdEnd(s, i) ==
    LET w == RunEnd(s, i + 1, IdChar)
        d == RunEnd(s, w + 2, Digit)
    IN IF w + 1 <= Len(s) /\ s[w + 1] = "[" /\ d >= w + 2
          /\ d + 1 <= Len(s) /\ s[d + 1] = "]"
       THEN d + 1 ELSE w

Space == {" ", "\t", "\n", "\r"}

RECURSIVE Lex(_, _)
\* The tokens of s from index i; the rules are tried in their order, and the
\* rules with lower-case names (eol, sp) produce no token.
Lex(s, i) ==
    IF i > Len(s) THEN [ok |-> TRUE, toks |-> << >>]
    ELSE LET c == s[i]
             one(t, v, j) == LET r == Lex(s, j)
                             IN [ok |-> r.ok, toks |-> <<Token(t, v)>> \o r.toks]
         IN CASE c = "(" -> one("Lt", <<c>>, i + 1)
              [] c = ")" -> one("Rt", <<c>>, i + 1)
              [] c \in Letter -> one("Id", SubSeq(s, i, IdEnd(s, i)), IdEnd(s, i) + 1)
              [] c = ":" /\ i < Len(s) /\ s[i + 1] = "=" -> one("Op", <<":", "=">>, i + 2)
              [] c \in {"+", "-", "*"} -> one("Op", <<c>>, i + 1)
              [] c \in Space -> Lex(s, RunEnd(s, i, Space) + 1)
              [] OTHER -> [ok |-> FALSE, toks |-> << >>]

Leaf(id) == [Ident |-> id, Op |-> << >>, Sub |-> << >>]

Node(op, sub) == [Ident |-> << >>, Op |-> op, Sub |-> sub]

RECURSIVE ParseExpr(_, _)
RECURSIVE ParseSubs(_, _)

\* `@@+` inside an operation: the sub-expressions from token i, as many as parse.
ParseSubs(toks, i) ==
    LET r == ParseExpr(toks, i)
    IN IF ~r.ok THEN [sub |-> << >>, next |-> i]
       ELSE LET rest == ParseSubs(toks, r.next)
            IN [sub |-> <<r.e>> \o rest.sub, next |-> rest.next]

\* Expr: `@Id | "(" @Op @@+ ")"`, from token i.
ParseExpr(toks, i) ==
    LET fail == [ok |-> FALSE, e |-> Leaf(<< >>), next |-> i]
    IN IF i > Len(toks) THEN fail
       ELSE IF toks[i].type = "Id" THEN [ok |-> TRUE, e |-> Leaf(toks[i].value), next |-> i + 1]
       ELSE IF toks[i].value = <<"(">> /\ i + 1 <= Len(toks) /\ toks[i + 1].type = "Op"
            THEN LET r == ParseSubs(toks, i + 2)
                 IN IF r.sub # << >> /\ r.next <= Len(toks) /\ toks[r.next].value = <<")">>
                    THEN [ok |-> TRUE, e |-> Node(toks[i + 1].value, r.sub), next |-> r.next + 1]
                    ELSE fail
            ELSE fail

\* Program: Statements `@@+` over the whole file; every token must be used.
ParseProgram(s) ==
    LET lx == Lex(s, 1)
        r == ParseSubs(lx.toks, 1)
    IN IF lx.ok /\ r.sub # << >> /\ r.next = Len(lx.toks) + 1
       THEN [ok |-> TRUE, Statements |-> r.sub]
       ELSE [ok |-> FALSE, Statements |-> << >>]

---------------------------------------------------------------------------
(* New program: Expr.Inputs and Expr.Gen.  A rendered statement is the     *)
(* sequence of jennifer tokens: Id, Op, and the "(" ")" of Parens.         *)

RECURSIVE Inputs(_)
RECURSIVE InputsOfSubs(_, _)

InputsOfSubs(e, k) ==
    IF k = 0 THEN << >> ELSE InputsOfSubs(e, k - 1) \o Inputs(e.Sub[k])

Inputs(e) ==
    LET idx == IndexByte(e.Ident, "[")
    IN (IF idx # -1 THEN <<SubSeq(e.Ident, 1, idx)>> ELSE << >>)
       \o InputsOfSubs(e, Len(e.Sub))

\* An operator choice that would keep ":=" for every target.
GenAssignOpKept(e) == e.Op

\* The operator of a node: ":=" becomes "=" when the left side is indexed.
GenAssignOp(e) ==
    IF e.Op = <<":", "=">> /\ HasSuffix(e.Sub[1].Ident, <<"]">>) THEN <<"=">> ELSE e.Op

\* A test that would wrap only operands with more than two sub-operands.
WrapsInParensOverTwo(op, sub) == op = <<"*">> /\ Len(sub.Sub) > 2

\* `if e.Op == "*" && len(sub.Sub) > 1`: the operand is wrapped in Parens.
WrapsInParens(op, sub) == op = <<"*">> /\ Len(sub.Sub) > 1

\* A test that would look for the subtraction under a subtraction.
FlattensSubUnderMinus(op, sub) == op = <<"-">> /\ sub.Op = <<"-">>

\* `if e.Op == "+" && sub.Op == "-"`: the operand is added with no operator.
FlattensSub(op, sub) == op = <<"+">> /\ sub.Op = <<"-">>

RECURSIVE Gen(_)
RECURSIVE GenOperands(_, _, _)

\* lt after the first k sub-expressions of a node with several.
GenOperands(e, op, k) ==
    LET sub == e.Sub[k]
    IN IF k = 1 THEN Gen(sub)
       ELSE LET lt == GenOperands(e, op, k - 1)
            IN IF WrapsInParens(op, sub)
               THEN lt \o <<Token("Op", op), Token("Lp", <<"(">>)>> \o Gen(sub)
                       \o <<Token("Rp", <<")">>)>>
               ELSE IF FlattensSub(op, sub)
                    THEN lt \o Gen(sub)
                    ELSE lt \o <<Token("Op", op)>> \o Gen(sub)

Gen(e) ==
    IF e.Ident # << >> THEN <<Token("Id", e.Ident)>>
    ELSE IF Len(e.Sub) = 1 THEN <<Token("Op", e.Op)>> \o Gen(e.Sub[1])
    ELSE GenOperands(e, GenAssignOp(e), Len(e.Sub))

---------------------------------------------------------------------------
(* Reading emitted text as the target language does: unary + and - bind    *)
(* tightest, then *, then binary + and -, each associating to the left.    *)

\* The literals given to the leaves of a value, left to right.
LeafNames ==
    << <<"x", "i", "[", "0", "]">>, <<"x", "i", "[", "1", "]">>,
       <<"x", "i", "[", "2", "]">>, <<"T", "7">>,
       <<"K", "P", "5", "0", "0">>, <<"x", "i", "[", "1", "0", "]">> >>

\* The value given to each leaf literal of LeafNames, in its order.
LeafValues == <<2, 3, 5, 7, 11, 13>>

LeafValue(id) ==
    IF \E k \in 1..Len(LeafNames) : LeafNames[k] = id
    THEN LeafValues[CHOOSE k \in 1..Len(LeafNames) : LeafNames[k] = id]
    ELSE 1

RECURSIVE GoSum(_, _)
RECURSIVE GoSumRest(_, _, _)
RECURSIVE GoProduct(_, _)
RECURSIVE GoProductRest(_, _, _)
RECURSIVE GoUnary(_, _)

GoFail(i) == [ok |-> FALSE, v |-> 0, next |-> i]

IsOpToken(ts, i, ops) == i <= Len(ts) /\ ts[i].type = "Op" /\ ts[i].value \in ops

\* PrimaryExpr (an operand or a parenthesized expression) under unary operators.
GoUnary(ts, i) ==
    IF i > Len(ts) THEN GoFail(i)
    ELSE IF IsOpToken(ts, i, {<<"-">>})
         THEN LET r == GoUnary(ts, i + 1) IN [r EXCEPT !.v = 0 - @]
    ELSE IF IsOpToken(ts, i, {<<"+">>}) THEN GoUnary(ts, i + 1)
    ELSE IF ts[i].type = "Id" THEN [ok |-> TRUE, v |-> LeafValue(ts[i].value), next |-> i + 1]
    ELSE IF ts[i].type = "Lp"
         THEN LET r == GoSum(ts, i + 1)
              IN IF r.ok /\ r.next <= Len(ts) /\ ts[r.next].type = "Rp"
                 THEN [r EXCEPT !.next = @ + 1] ELSE GoFail(i)
    ELSE GoFail(i)

GoProductRest(ts, acc, i) ==
    IF IsOpToken(ts, i, {<<"*">>})
    THEN LET r == GoUnary(ts, i + 1)
         IN IF r.ok THEN GoProductRest(ts, acc * r.v, r.next) ELSE GoFail(i)
    ELSE [ok |-> TRUE, v |-> acc, next |-> i]

GoProduct(ts, i) ==
    LET r == GoUnary(ts, i) IN IF r.ok THEN GoProductRest(ts, r.v, r.next) ELSE r

GoSumRest(ts, acc, i) ==
    IF IsOpToken(ts, i, {<<"+">>, <<"-">>})
    THEN LET r == GoProduct(ts, i + 1)
         IN IF r.ok
            THEN GoSumRest(ts, IF ts[i].value = <<"+">> THEN acc + r.v ELSE acc - r.v, r.next)
            ELSE GoFail(i)
    ELSE [ok |-> TRUE, v |-> acc, next |-> i]

GoSum(ts, i) ==
    LET r == GoProduct(ts, i) IN IF r.ok THEN GoSumRest(ts, r.v, r.next) ELSE r

\* A statement `target := expression` or `target = expression`, to its end.
GoStatement(ts) ==
    IF Len(ts) >= 3 /\ ts[1].type = "Id" /\ IsOpToken(ts, 2, {<<":", "=">>, <<"=">>})
    THEN LET r == GoSum(ts, 3)
         IN IF r.ok /\ r.next = Len(ts) + 1 THEN r ELSE GoFail(1)
    ELSE GoFail(1)

RECURSIVE TreeValue(_)
RECURSIVE TreeValueOperands(_, _)

\* The value of the first k operands of an operation combined left to right.
TreeValueOperands(e, k) ==
    IF k = 1 THEN TreeValue(e.Sub[1])
    ELSE LET acc == TreeValueOperands(e, k - 1)
             v == TreeValue(e.Sub[k])
         IN CASE e.Op = <<"+">> -> acc + v
              [] e.Op = <<"-">> -> acc - v
              [] e.Op = <<"*">> -> acc * v

\* The value of a tree according to its own nesting.
TreeValue(e) ==
    IF e.Sub = << >> THEN LeafValue(e.Ident)
    ELSE IF Len(e.Sub) = 1
         THEN (IF e.Op = <<"-">> THEN 0 - TreeValue(e.Sub[1]) ELSE TreeValue(e.Sub[1]))
         ELSE TreeValueOperands(e, Len(e.Sub))

---------------------------------------------------------------------------
(* genfft.go: TransformLength and the pieces of main.                      *)

\* Max(a, b)
Max(a, b) == IF b > a THEN b ELSE a

RECURSIVE transformLength(_)
RECURSIVE transformLengthOfChildren(_, _)

\* The index a literal ending in "]" states: Lit[3:len(Lit)-1] parsed as an
\* unsigned integer; the slice or the parse error panics.
indexOfLit(lit) ==
    IF Len(lit) < 4 THEN [panic |-> TRUE, max |-> 0]
    ELSE LET r == ParseUint(SubSeq(lit, 4, Len(lit) - 1))
         IN [panic |-> r.err, max |-> r.n]

transformLengthOfChildren(e, k) ==
    IF k = 0 THEN [panic |-> FALSE, max |-> 0]
    ELSE LET before == transformLengthOfChildren(e, k - 1)
             child == transformLength(e.Expr[k])
         IN IF before.panic \/ child.panic THEN [panic |-> TRUE, max |-> 0]
            ELSE [panic |-> FALSE, max |-> Max(before.max, child.max)]

transformLength(e) ==
    IF HasSuffix(e.Lit, <<"]">>) THEN indexOfLit(e.Lit)
    ELSE transformLengthOfChildren(e, Len(e.Expr))

TransformLength(e) ==
    LET r == transformLength(e) IN [panic |-> r.panic, max |-> r.max + 1]

\* The class [\d_] and the class [\d\.] of the constant pattern.
NameChar == Digit \cup {"_"}
ValueChar == Digit \cup {"."}

At(s, i, c) == i >= 1 /\ i <= Len(s) /\ s[i] = c

\* `(DV?K)\((K[NP][\d_]+), ([+-][\d\.]+)\);` matched at index i of s.
constReAt(s, i) ==
    LET k == IF At(s, i + 1, "V") THEN i + 2 ELSE i + 1
        nameEnd == RunEnd(s, k + 4, NameChar)
        valueEnd == RunEnd(s, nameEnd + 4, ValueChar)
    IN IF /\ At(s, i, "D") /\ At(s, k, "K") /\ At(s, k + 1, "(")
          /\ At(s, k + 2, "K") /\ (At(s, k + 3, "N") \/ At(s, k + 3, "P"))
          /\ nameEnd >= k + 4
          /\ At(s, nameEnd + 1, ",") /\ At(s, nameEnd + 2, " ")
          /\ (At(s, nameEnd + 3, "+") \/ At(s, nameEnd + 3, "-"))
          /\ valueEnd >= nameEnd + 4
          /\ At(s, valueEnd + 1, ")") /\ At(s, valueEnd + 2, ";")
       THEN [ok |-> TRUE, name |-> SubSeq(s, k + 2, nameEnd),
             value |-> SubSeq(s, nameEnd + 3, valueEnd)]
       ELSE [ok |-> FALSE, name |-> << >>, value |-> << >>]

\* constRe.FindStringSubmatch(line)[2:]: the leftmost match in the line.
constRe(s) ==
    IF \E i \in 1..Len(s) : constReAt(s, i).ok
    THEN constReAt(s, CHOOSE i \in 1..Len(s) :
                        constReAt(s, i).ok /\ \A j \in 1..(i - 1) : ~constReAt(s, j).ok)
    ELSE [ok |-> FALSE, name |-> << >>, value |-> << >>]

\* egrep "^DV?K" of the Makefile: the lines appended to the schedule file.
Egrep(ls) ==
    SelectSeq(ls, LAMBDA l : HasPrefix(l, <<"D", "K">>) \/ HasPrefix(l, <<"D", "V", "K">>))

\* The tokens format.Source reads in a statement's text: operands (an
\* identifier or number, with an index in brackets or without), the operators,
\* and the parentheses; anything else is no token of a statement.
OperandChar == IdChar \cup {"[", "]", "."}

WellFormedOperand(w) ==
    LET b == IndexByte(w, "[")
    IN IF b = -1 THEN \A i \in 1..Len(w) : w[i] \in IdChar \cup {"."}
       ELSE /\ b >= 1
            /\ \A i \in 1..b : w[i] \in IdChar
            /\ w[Len(w)] = "]"
            /\ Len(w) > b + 2
            /\ \A i \in (b + 2)..(Len(w) - 1) : w[i] \in IdChar

RECURSIVE GoTokens(_, _)
GoTokens(s, i) ==
    IF i > Len(s) THEN << >>
    ELSE LET c == s[i]
         IN CASE c = "(" -> <<Token("Lp", <<c>>)>> \o GoTokens(s, i + 1)
              [] c = ")" -> <<Token("Rp", <<c>>)>> \o GoTokens(s, i + 1)
              [] c = ":" /\ At(s, i + 1, "=") ->
                   <<Token("Op", <<":", "=">>)>> \o GoTokens(s, i + 2)
              [] c \in {"+", "-"} /\ At(s, i + 1, c) ->
                   <<Token("Bad", <<c, c>>)>> \o GoTokens(s, i + 2)
              [] c \in {"+", "-", "*", "="} -> <<Token("Op", <<c>>)>> \o GoTokens(s, i + 1)
              [] c \in OperandChar ->
                   LET n == RunEnd(s, i, OperandChar)
                       w == SubSeq(s, i, n)
                   IN <<Token(IF WellFormedOperand(w) THEN "Id" ELSE "Bad", w)>>
                         \o GoTokens(s, n + 1)
              [] OTHER -> <<Token("Bad", <<c>>)>> \o GoTokens(s, i + 1)

\* format.Source accepts the statement.
FormatsAsStatement(s) == GoStatement(GoTokens(s, 1)).ok

---------------------------------------------------------------------------
(* New program: the pieces of main and Program.Gen.                        *)

RECURSIVE FirstCommaSpace(_, _)
\* The index of the first ", " of s from index i on, or 0.
FirstCommaSpace(s, i) ==
    IF i + 1 > Len(s) THEN 0
    ELSE IF s[i] = "," /\ s[i + 1] = " " THEN i
    ELSE FirstCommaSpace(s, i + 1)

\* `^\s*DV?K\((.*?), (.*?)\);$` on a line: the two groups.
newConstRe(s) ==
    LET d == RunEnd(s, 1, Space) + 1
        k == IF At(s, d + 1, "V") THEN d + 2 ELSE d + 1
        c == FirstCommaSpace(s, k + 2)
    IN IF /\ At(s, d, "D") /\ At(s, k, "K") /\ At(s, k + 1, "(")
          /\ c # 0 /\ Len(s) - 1 >= c + 2
          /\ At(s, Len(s) - 1, ")") /\ At(s, Len(s), ";")
       THEN [ok |-> TRUE, Name |-> SubSeq(s, k + 2, c - 1),
             Value |-> SubSeq(s, c + 2, Len(s) - 2)]
       ELSE [ok |-> FALSE, Name |-> << >>, Value |-> << >>]

\* The file a sequence of lines makes.
FileText(ls) == Flatten([i \in 1..Len(ls) |-> ls[i] \o <<"\n">>])

\* The argument set of Program.Gen: the inputs of every statement.
ArgSet(statements) ==
    UNION {{Inputs(statements[i])[j] : j \in 1..Len(Inputs(statements[i]))} :
           i \in 1..Len(statements)}

\* A test that would take either split array for a float dft.
IsFloatDftEither(argSet) == <<"r", "i">> \in argSet \/ <<"i", "i">> \in argSet

\* `if _, exists := argSet["ri"]; exists`
IsFloatDft(argSet) == <<"r", "i">> \in argSet

ImaginaryUnit == [Name |-> <<"I">>, Value |-> <<"1", "i">>]

\* The constants of a complex dft: the imaginary constant, then the others.
WithImaginary(constants) == <<ImaginaryUnit>> \o constants

\* Program.Gen: the arguments, the constants and the statements of the function.
ProgramGen(p) ==
    LET float == IsFloatDft(ArgSet(p.Statements))
    IN [args |-> IF float THEN << <<"r", "i">>, <<"i", "i">>, <<"r", "o">>, <<"i", "o">> >>
                 ELSE << <<"x", "i">>, <<"x", "o">> >>,
        argType |-> IF float THEN "float64" ELSE "complex128",
        constants |-> IF float THEN p.Constants ELSE WithImaginary(p.Constants),
        body |-> [i \in 1..Len(p.Statements) |-> Gen(p.Statements[i])]]

---------------------------------------------------------------------------
(* The schedule lines handed to the programs: every statement             *)
(* (:= target value) whose value has at most MaxNodes nodes, built of the  *)
(* operations the schedules hold with up to MaxArity operands, and          *)
(* distinguishable leaves.                                                 *)

Min(a, b) == IF a < b THEN a ELSE b

\* The operations of k operands: unary -, binary *, and + and - of two or more.
OpsOfArity(k) ==
    CASE k = 1 -> {<<"-">>}
      [] k = 2 -> {<<"+">>, <<"-">>, <<"*">>}
      [] OTHER -> {<<"+">>, <<"-">>}

RECURSIVE Shapes(_)
RECURSIVE Forests(_, _)

\* The trees of exactly n nodes, every leaf still unnamed.
Shapes(n) ==
    IF n = 1 THEN {Leaf(<<"?">>)}
    ELSE UNION {{Node(op, f) : op \in OpsOfArity(k), f \in Forests(n - 1, k)} :
                k \in 1..Min(MaxArity, n - 1)}

\* The sequences of k trees of m nodes in all.
Forests(m, k) ==
    IF k = 0 THEN (IF m = 0 THEN {<< >>} ELSE {})
    ELSE UNION {{<<t>> \o f : t \in Shapes(j), f \in Forests(m - j, k - 1)} :
                j \in 1..(m - k + 1)}

RECURSIVE Label(_, _)
RECURSIVE LabelSubs(_, _, _)

LabelSubs(sub, k, next) ==
    IF k = 0 THEN [sub |-> << >>, next |-> next]
    ELSE LET before == LabelSubs(sub, k - 1, next)
             r == Label(sub[k], before.next)
         IN [sub |-> Append(before.sub, r.e), next |-> r.next]

\* The tree with its leaves named from LeafNames[next] on.
Label(t, next) ==
    IF t.Sub = << >> THEN [e |-> Leaf(LeafNames[next]), next |-> next + 1]
    ELSE LET r == LabelSubs(t.Sub, Len(t.Sub), next)
         IN [e |-> Node(t.Op, r.sub), next |-> r.next]

Values == {Label(t, 1).e : t \in UNION {Shapes(n) : n \in 1..MaxNodes}}

Targets == {<<"T", "1">>, <<"T", "2", "3">>, <<"r", "o", "[", "2", "]">>}

Statements == {Node(<<":", "=">>, <<Leaf(t), v>>) : t \in Targets, v \in Values}

RECURSIVE Unparse(_)
RECURSIVE UnparseSubs(_, _)

UnparseSubs(e, k) ==
    IF k = 0 THEN << >> ELSE UnparseSubs(e, k - 1) \o <<" ">> \o Unparse(e.Sub[k])

\* The schedule text of a tree: "(op operand operand...)" or the literal.
Unparse(e) ==
    IF e.Sub = << >> THEN e.Ident
    ELSE <<"(">> \o e.Op \o UnparseSubs(e, Len(e.Sub)) \o <<")">>

---------------------------------------------------------------------------
(* One schedule line through both programs.                                *)

NoExpr == Leaf(<< >>)

NoRun == [state |-> "idle"]

Init ==
    /\ pc = "start"
    /\ line \in {Unparse(s) : s \in Statements}
    /\ expr = NewExpression
    /\ strOut = << >>
    /\ stmt = NoExpr
    /\ genOut = << >>
    /\ alst = << >>
    /\ cout = << >>
    /\ old = NoRun
    /\ new = NoRun

\* genfft.go main, lines 219-223: the line is parsed.
OldParse ==
    /\ pc = "start"
    /\ expr' = Parse(line)
    /\ pc' = "oldParsed"
    /\ UNCHANGED <<line, strOut, stmt, genOut, alst, cout, old, new>>

\* genfft.go main, lines 251-253: the statement is rendered.
OldString ==
    /\ pc = "oldParsed"
    /\ strOut' = String(expr)
    /\ pc' = "oldDone"
    /\ UNCHANGED <<line, expr, stmt, genOut, alst, cout, old, new>>

\* New main, parser.Parse: the line becomes an Expr, or the run is fatal.
NewParse ==
    /\ pc = "oldDone"
    /\ LET p == ParseProgram(line)
       IN IF p.ok /\ Len(p.Statements) = 1
          THEN stmt' = p.Statements[1] /\ pc' = "newParsed"
          ELSE stmt' = stmt /\ pc' = "newFatal"
    /\ UNCHANGED <<line, expr, strOut, genOut, alst, cout, old, new>>

\* Program.Gen, lines 320-322: the statement is rendered.
NewGen ==
    /\ pc = "newParsed"
    /\ genOut' = Gen(stmt)
    /\ pc' = "done"
    /\ UNCHANGED <<line, expr, strOut, stmt, alst, cout, old, new>>

Next == OldParse \/ OldString \/ NewParse \/ NewGen

Spec == Init /\ [][Next]_vars

---------------------------------------------------------------------------
(* Whole programs: the schedule file and the companion C output of one     *)
(* kernel, through main of genfft.go (SpecOld) and main of the new program *)
(* (SpecNew).                                                              *)

\* (:= T1 (+ ri[0] ri[1]))
LineFloat ==
    <<"(", ":", "=", " ", "T", "1", " ", "(", "+", " ", "r", "i", "[", "0", "]",
      " ", "r", "i", "[", "1", "]", ")", ")">>

\* (:= io[1] (+ ii[0] (- ii[3])))
LineImag ==
    <<"(", ":", "=", " ", "i", "o", "[", "1", "]", " ", "(", "+", " ", "i", "i",
      "[", "0", "]", " ", "(", "-", " ", "i", "i", "[", "3", "]", ")", ")", ")">>

\* (:= xo[1] (* KP5 xi[10]))
LineComplex ==
    <<"(", ":", "=", " ", "x", "o", "[", "1", "]", " ", "(", "*", " ", "K", "P",
      "5", " ", "x", "i", "[", "1", "0", "]", ")", ")">>

\* (:= T2 xi[0])
LineFirst == <<"(", ":", "=", " ", "T", "2", " ", "x", "i", "[", "0", "]", ")">>

\* (:= T3 x[12])
LineShortName == <<"(", ":", "=", " ", "T", "3", " ", "x", "[", "1", "2", "]", ")">>

\* (:= ro[2] (+ ri[1] T1)     -- the closing parenthesis of the statement is missing
LineUnbalanced ==
    <<"(", ":", "=", " ", "r", "o", "[", "2", "]", " ", "(", "+", " ", "r", "i",
      "[", "1", "]", " ", "T", "1", ")">>

\* (:= T5 (/ ri[0] ri[1]))    -- "/" is no operator of the schedules
LineUnknownOp ==
    <<"(", ":", "=", " ", "T", "5", " ", "(", "/", " ", "r", "i", "[", "0", "]",
      " ", "r", "i", "[", "1", "]", ")", ")">>

\* (:= T6 ri[a])              -- the index is no unsigned integer
LineBadIndex == <<"(", ":", "=", " ", "T", "6", " ", "r", "i", "[", "a", "]", ")">>

\* (:= ri[1] (- xi[0]))      -- ri is the target only
LineTargetOnly ==
    <<"(", ":", "=", " ", "r", "i", "[", "1", "]", " ", "(", "-", " ", "x", "i",
      "[", "0", "]", ")", ")">>

LinePool == {LineFloat, LineImag, LineComplex, LineFirst, LineShortName, LineTargetOnly,
             LineUnbalanced, LineUnknownOp, LineBadIndex}

\* DK(KP5, +0.5);
CoutDK == <<"D", "K", "(", "K", "P", "5", ",", " ", "+", "0", ".", "5", ")", ";">>

\* DVK(KN8, -0.8);
CoutDVK == <<"D", "V", "K", "(", "K", "N", "8", ",", " ", "-", "0", ".", "8", ")", ";">>

\* T1 = ri[0];
CoutOther == <<"T", "1", " ", "=", " ", "r", "i", "[", "0", "]", ";">>

CoutPool == {CoutDK, CoutDVK, CoutOther}

SeqsUpTo(S, n) == UNION {[1..k -> S] : k \in 0..n}

OldIdle == [i |-> 0, constants |-> << >>, expressions |-> << >>, max |-> 0,
            func |-> << >>, body |-> << >>]

NewIdle == [i |-> 0, Statements |-> << >>, Constants |-> << >>,
            out |-> [args |-> << >>, argType |-> "", constants |-> << >>, body |-> << >>]]

InitProg ==
    /\ pc = "start"
    /\ alst \in SeqsUpTo(LinePool, MaxLines) \ {<< >>}
    /\ cout \in SeqsUpTo(CoutPool, MaxCout)
    /\ old = OldIdle
    /\ new = NewIdle
    /\ line = << >>
    /\ expr = NewExpression
    /\ strOut = << >>
    /\ stmt = NoExpr
    /\ genOut = << >>

\* The file genfft.go reads: the schedule, then the constants egrep appended.
OldInput == alst \o Egrep(cout)

\* genfft.go main, lines 205-224: one turn of the scanner loop.
OldScanLine ==
    /\ pc = "start"
    /\ old.i < Len(OldInput)
    /\ LET l == OldInput[old.i + 1]
           m == constRe(l)
       IN IF m.ok
          THEN /\ old' = [old EXCEPT !.i = @ + 1,
                                     !.constants = Append(@, <<m.name, m.value>>)]
               /\ pc' = pc
          ELSE IF ParsePanics(l)
               THEN old' = old /\ pc' = "panic"
               ELSE /\ old' = [old EXCEPT !.i = @ + 1,
                                          !.expressions = Append(@, Parse(l))]
                    /\ pc' = pc
    /\ UNCHANGED <<line, expr, strOut, stmt, genOut, alst, cout, new>>

RECURSIVE MaxLength(_, _)
\* The loop of lines 229-232 over the first k expressions.
MaxLength(es, k) ==
    IF k = 0 THEN [panic |-> FALSE, max |-> 0]
    ELSE LET before == MaxLength(es, k - 1)
             t == TransformLength(es[k])
         IN IF before.panic \/ t.panic THEN [panic |-> TRUE, max |-> 0]
            ELSE [panic |-> FALSE, max |-> Max(before.max, t.max)]

\* genfft.go main, lines 229-233: the kernel size N.
OldLength ==
    /\ pc = "start"
    /\ old.i = Len(OldInput)
    /\ LET r == MaxLength(old.expressions, Len(old.expressions))
       IN IF r.panic THEN old' = old /\ pc' = "panic"
          ELSE old' = [old EXCEPT !.max = r.max] /\ pc' = "sized"
    /\ UNCHANGED <<line, expr, strOut, stmt, genOut, alst, cout, new>>

\* genfft.go main, lines 235-264: the signature, the body, the formatter; the
\* source is written only when it formats.
OldEmit ==
    /\ pc = "sized"
    /\ IF old.expressions = << >> \/ Len(old.expressions[1].Expr) < 2
       THEN old' = old /\ pc' = "panic"
       ELSE LET body == [k \in 1..Len(old.expressions) |-> String(old.expressions[k])]
                func == IF old.expressions[1].Expr[2].Lit = <<"x", "i", "[", "0", "]">>
                        THEN << <<"x", "i">>, <<"x", "o">> >>
                        ELSE << <<"r", "i">>, <<"i", "i">>, <<"r", "o">>, <<"i", "o">> >>
            IN /\ old' = [old EXCEPT !.func = func, !.body = body]
               /\ pc' = IF \A k \in 1..Len(body) : FormatsAsStatement(body[k])
                        THEN "written" ELSE "fatal"
    /\ UNCHANGED <<line, expr, strOut, stmt, genOut, alst, cout, new>>

NextOld == OldScanLine \/ OldLength \/ OldEmit

SpecOld == InitProg /\ [][NextOld]_vars

\* New main, lines 462-475: the schedule file is parsed, or the run is fatal.
NewMainParse ==
    /\ pc = "start"
    /\ LET p == ParseProgram(FileText(alst))
       IN IF p.ok
          THEN new' = [new EXCEPT !.Statements = p.Statements] /\ pc' = "parsed"
          ELSE new' = new /\ pc' = "fatal"
    /\ UNCHANGED <<line, expr, strOut, stmt, genOut, alst, cout, old>>

\* New main, lines 488-502: one turn of the scanner loop over the C output.
NewMainScan ==
    /\ pc = "parsed"
    /\ new.i < Len(cout)
    /\ LET m == newConstRe(cout[new.i + 1])
       IN new' = [new EXCEPT !.i = @ + 1,
                             !.Constants = IF m.ok
                                           THEN Append(@, [Name |-> m.Name, Value |-> m.Value])
                                           ELSE @]
    /\ UNCHANGED <<pc, line, expr, strOut, stmt, genOut, alst, cout, old>>

\* New main, lines 504-512: Program.Gen and f.Save, which writes the file
\* only when the rendered source formats.
NewMainGen ==
    /\ pc = "parsed"
    /\ new.i = Len(cout)
    /\ LET out == ProgramGen([Statements |-> new.Statements, Constants |-> new.Constants])
       IN /\ new' = [new EXCEPT !.out = out]
          /\ pc' = IF \A k \in 1..Len(out.body) : GoStatement(out.body[k]).ok
                   THEN "written" ELSE "fatal"
    /\ UNCHANGED <<line, expr, strOut, stmt, genOut, alst, cout, old>>

NextNew == NewMainParse \/ NewMainScan \/ NewMainGen

SpecNew == InitProg /\ [][NextNew]_vars

---------------------------------------------------------------------------
(* Expression.parse, one character at a time (SpecParse): the calls in     *)
(* progress are a stack of frames, each with the node it builds, the       *)
(* 0-based offset of its slice in the text parse was given, and its idx.   *)

\* The text Expression.Parse hands to parse: line[2:].
ParseText == SubSeq(line, 3, Len(line))

Frame(e, base, idx) == [e |-> e, base |-> base, idx |-> idx]

TopFrame == old.stack[Len(old.stack)]

\* The condition of the for loop, `idx < len(line)`, in the top frame.
InLoop == TopFrame.idx < Len(ParseText) - TopFrame.base

\* line[idx] of the top frame.
TopChar == ParseText[TopFrame.base + TopFrame.idx + 1]

\* One more visit of the character at 0-based offset p of the text.
Visit(hits, p) == [hits EXCEPT ![p + 1] = @ + 1]

InitParse ==
    /\ pc = "parsing"
    /\ line \in {Unparse(s) : s \in Statements}
    /\ expr = NewExpression
    /\ old = [stack |-> <<Frame(parseEntry(NewExpression), 0, 0)>>,
              hits |-> [p \in 1..(Len(line) - 2) |-> 0],
              rets |-> << >>]
    /\ strOut = << >>
    /\ stmt = NoExpr
    /\ genOut = << >>
    /\ alst = << >>
    /\ cout = << >>
    /\ new = NoRun

\* parse, lines 121-132 and 137-139: a character that is no parenthesis.
ParseChar ==
    /\ pc = "parsing"
    /\ InLoop
    /\ TopChar \notin {"(", ")"}
    /\ LET f == TopFrame
           c == TopChar
           at == f.base + f.idx
           top == Len(old.stack)
           cur == f.e.OpIdx + 1
       IN CASE c = ":" ->
                 old' = [old EXCEPT !.stack[top].idx = @ + 1, !.hits = Visit(@, at)]
            [] c \in {"=", "+", "-", "*"} ->
                 old' = [old EXCEPT !.stack[top].e.Op = <<c>>,
                                    !.stack[top].idx = @ + 2,
                                    !.hits = IF at + 1 < Len(ParseText)
                                             THEN Visit(Visit(@, at), at + 1)
                                             ELSE Visit(@, at)]
            [] c = " " ->
                 old' = [old EXCEPT !.stack[top].e = parseSpace(@),
                                    !.stack[top].idx = @ + 1,
                                    !.hits = Visit(@, at)]
            [] OTHER ->
                 old' = [old EXCEPT !.stack[top].e.Expr[cur].Lit = Append(@, c),
                                    !.stack[top].idx = @ + 1,
                                    !.hits = Visit(@, at)]
    /\ UNCHANGED <<pc, line, expr, strOut, stmt, genOut, alst, cout, new>>

\* parse, lines 119-120, the call: the current operand parses line[idx+1:].
ParseOpen ==
    /\ pc = "parsing"
    /\ InLoop
    /\ TopChar = "("
    /\ LET f == TopFrame
           at == f.base + f.idx
       IN old' = [old EXCEPT
                    !.stack = Append(@, Frame(parseEntry(f.e.Expr[f.e.OpIdx + 1]), at + 1, 0)),
                    !.hits = Visit(@, at)]
    /\ UNCHANGED <<pc, line, expr, strOut, stmt, genOut, alst, cout, new>>

\* parse, lines 135-136 and 143, the return, and line 120 in the caller:
\* `idx +=` the value returned, then the idx++ of the loop.
ParseReturn ==
    /\ pc = "parsing"
    /\ IF InLoop THEN TopChar = ")" ELSE TRUE
    /\ LET f == TopFrame
           top == Len(old.stack)
           ret == IF InLoop THEN returnAtClose(f.idx) ELSE f.idx
           hits == IF InLoop THEN Visit(old.hits, f.base + f.idx) ELSE old.hits
       IN IF top = 1
          THEN /\ old' = [old EXCEPT !.stack = << >>, !.hits = hits]
               /\ expr' = f.e
               /\ pc' = "parsed"
          ELSE LET g == old.stack[top - 1]
                   cur == g.e.OpIdx + 1
                   back == [g EXCEPT !.e.Expr[cur] = f.e, !.idx = @ + ret + 1]
               IN /\ old' = [old EXCEPT
                               !.stack = Append(SubSeq(@, 1, top - 2), back),
                               !.hits = hits,
                               !.rets = Append(@, [open |-> g.base + g.idx,
                                                   ret |-> ret,
                                                   resume |-> back.base + back.idx])]
                  /\ UNCHANGED <<expr, pc>>
    /\ UNCHANGED <<line, strOut, stmt, genOut, alst, cout, new>>

NextParse == ParseChar \/ ParseOpen \/ ParseReturn

SpecParse == InitParse /\ [][NextParse]_vars

---------------------------------------------------------------------------
(* Helpers of the properties.                                              *)

\* The statement the line states, by the schedule grammar.
LineTree == ParseProgram(line).Statements[1]

\* s holds part as a contiguous segment.
Contains(s, part) ==
    \E i \in 0..(Len(s) - Len(part)) : SubSeq(s, i + 1, i + Len(part)) = part

RECURSIVE SubExprs(_)
\* Every node of an Expr tree.
SubExprs(e) == {e} \cup UNION {SubExprs(e.Sub[k]) : k \in 1..Len(e.Sub)}

IsUnaryMinus(e) == Len(e.Sub) = 1 /\ e.Op = <<"-">>

Delimiter == {"(", ")", " ", ":", "=", "+", "-", "*"}

RECURSIVE LiteralEnd(_, _)
\* The last index of the run of non-delimiters of s from index i.
LiteralEnd(s, i) ==
    IF i <= Len(s) /\ s[i] \notin Delimiter THEN LiteralEnd(s, i + 1) ELSE i - 1

RECURSIVE Literals(_)
\* The literals of a text, in its order: the pieces between delimiters.
Literals(s) ==
    IF s = << >> THEN << >>
    ELSE IF s[1] \in Delimiter THEN Literals(Tail(s))
    ELSE LET n == LiteralEnd(s, 1)
         IN <<SubSeq(s, 1, n)>> \o Literals(SubSeq(s, n + 1, Len(s)))

\* The values of the Id tokens, in their order.
IdsOf(ts) == LET ids == SelectSeq(ts, LAMBDA t : t.type = "Id")
             IN [i \in 1..Len(ids) |-> ids[i].value]

\* The text after the assignment operator of a rendered statement.
RhsText(s) == SubSeq(s, IndexByte(s, "=") + 2, Len(s))

\* The tokens after the assignment operator of a rendered statement.
RhsTokens(ts) == SubSeq(ts, 3, Len(ts))

RECURSIVE NodesAt(_, _)
\* Every node of an Expr tree with its depth, the tree's root being at depth td.
NodesAt(e, td) ==
    {[n |-> e, td |-> td]} \cup UNION {NodesAt(e.Sub[k], td + 1) : k \in 1..Len(e.Sub)}

RECURSIVE ExprLeaves(_)
\* The leaf literals of an Expr tree, left to right.
ExprLeaves(e) ==
    IF e.Sub = << >> THEN <<e.Ident>>
    ELSE Flatten([k \in 1..Len(e.Sub) |-> ExprLeaves(e.Sub[k])])

RECURSIVE ExpressionLeaves(_)
\* The leaf literals of an Expression tree, left to right.
ExpressionLeaves(e) ==
    IF e.Op = << >> THEN <<e.Lit>>
    ELSE Flatten([k \in 1..Len(e.Expr) |-> ExpressionLeaves(e.Expr[k])])

RECURSIVE TextOf(_, _, _)
RECURSIVE BodyText(_, _, _)
RECURSIVE OperandsText(_, _, _, _)

\* Operand k of node e (at depth td) is a unary minus folded under an addition.
Folded(e, k) == k >= 2 /\ e.Op = <<"+">> /\ IsUnaryMinus(e.Sub[k])

\* The text of operand k without the operator before it.
OperandCore(e, k, td, byArity) ==
    IF Folded(e, k) THEN TextOf(e.Sub[k].Sub[1], td + 2, byArity)
    ELSE TextOf(e.Sub[k], td + 1, byArity)

OperandsText(e, k, td, byArity) ==
    IF k = 1 THEN OperandCore(e, 1, td, byArity)
    ELSE OperandsText(e, k - 1, td, byArity)
            \o (IF Folded(e, k) THEN <<"-">> ELSE e.Op)
            \o OperandCore(e, k, td, byArity)

\* An operation's text without parentheses of its own.
BodyText(e, td, byArity) ==
    IF Len(e.Sub) = 1 THEN e.Op \o TextOf(e.Sub[1], td + 1, byArity)
    ELSE OperandsText(e, Len(e.Sub), td, byArity)

\* The text a node at depth td of a statement (the statement at depth 0) is to
\* have.  An operation is parenthesized by its depth alone, from depth 2 on;
\* with byArity, as soon as it is below the root and has several operands.
TextOf(e, td, byArity) ==
    IF e.Sub = << >> THEN e.Ident
    ELSE IF (IF byArity THEN td >= 1 /\ Len(e.Sub) > 1 ELSE td >= 2)
         THEN <<"(">> \o BodyText(e, td, byArity) \o <<")">>
         ELSE BodyText(e, td, byArity)

\* The tokens of operand k of an addition without the operator before it.
GenCore(e, k) == IF Folded(e, k) THEN Gen(e.Sub[k].Sub[1]) ELSE Gen(e.Sub[k])

NoPlusMinus(s) == \A i \in 1..(Len(s) - 1) : ~(s[i] = "+" /\ s[i + 1] = "-")

NoPlusMinusTokens(ts) ==
    \A i \in 1..(Len(ts) - 1) :
        ~(ts[i] = Token("Op", <<"+">>) /\ ts[i + 1] = Token("Op", <<"-">>))

OldRendered == pc \in {"oldDone", "newParsed", "done"}

Xi0 == <<"x", "i", "[", "0", "]">>
Xi1 == <<"x", "i", "[", "1", "]">>
Xi2 == <<"x", "i", "[", "2", "]">>

---------------------------------------------------------------------------
(* The properties of one schedule line.                                    *)

\* C1: for every line, the right-hand side Expr.Gen renders, read with the
\* target language's precedence, has the value of the tree evaluated by its
\* own nesting (stated for the renderings that are well-formed statements).
C1_GenKeepsValue ==
    pc = "done" =>
        LET r == GoStatement(genOut)
        IN r.ok => r.v = TreeValue(LineTree.Sub[2])

\* C2: for every statement tree, the text Expr.Gen emits is valid infix:
\* balanced parentheses and an operator between any two operand renderings.
C2_GenIsValidInfix == pc = "done" => GoStatement(genOut).ok

\* The right-hand side of (:= T2 (+ xi[0] (- xi[1]))).
ExampleFold == Node(<<"+">>, <<Leaf(Xi0), Node(<<"-">>, <<Leaf(Xi1)>>)>>)

\* Both renderers put a bare "-" and the sub-expression right after the
\* operand before a unary minus under an addition.
FoldsUnaryMinus ==
    /\ OldRendered =>
         \A c \in NodesAt(LineTree, 0) : \A k \in 2..Len(c.n.Sub) :
            Folded(c.n, k) =>
                Contains(strOut, OperandCore(c.n, k - 1, c.td, FALSE) \o <<"-">>
                                   \o OperandCore(c.n, k, c.td, FALSE))
    /\ pc = "done" =>
         \A e \in SubExprs(LineTree) : \A k \in 2..Len(e.Sub) :
            Folded(e, k) =>
                Contains(genOut, GenCore(e, k - 1) \o <<Token("Op", <<"-">>)>>
                                   \o GenCore(e, k))

FoldExample ==
    LineTree.Sub[2] = ExampleFold =>
        /\ OldRendered => RhsText(strOut) = Xi0 \o <<"-">> \o Xi1
        /\ pc = "done" =>
             RhsTokens(genOut) = <<Token("Id", Xi0), Token("Op", <<"-">>), Token("Id", Xi1)>>

ExampleMul == Node(<<"*">>, <<Leaf(Xi0), Node(<<"+">>, <<Leaf(Xi1), Leaf(Xi2)>>)>>)

MulOfSeveral(e) == e.Op = <<"*">> /\ Len(e.Sub) = 2 /\ Len(e.Sub[2].Sub) > 1

\* C4: both renderers enclose in parentheses the right-hand operand of a
\* binary "*" when that operand has several operands, at every depth; the
\* example renders xi[0]*(xi[1]+xi[2]).
C4_MulOperandParenthesized ==
    /\ OldRendered =>
         /\ \A c \in NodesAt(LineTree, 0) :
               MulOfSeveral(c.n) =>
                   Contains(strOut, <<"*", "(">> \o BodyText(c.n.Sub[2], c.td + 1, FALSE)
                                      \o <<")">>)
         /\ LineTree.Sub[2] = ExampleMul =>
               RhsText(strOut) = Xi0 \o <<"*", "(">> \o Xi1 \o <<"+">> \o Xi2 \o <<")">>
    /\ pc = "done" =>
         /\ \A e \in SubExprs(LineTree) :
               MulOfSeveral(e) =>
                   Contains(genOut, <<Token("Op", <<"*">>), Token("Lp", <<"(">>)>>
                                      \o Gen(e.Sub[2]) \o <<Token("Rp", <<")">>)>>)
         /\ LineTree.Sub[2] = ExampleMul =>
               RhsTokens(genOut) =
                   <<Token("Id", Xi0), Token("Op", <<"*">>), Token("Lp", <<"(">>),
                     Token("Id", Xi1), Token("Op", <<"+">>), Token("Id", Xi2),
                     Token("Rp", <<")">>)>>

C4_Witness ==
    /\ pc = "done"
    /\ \E c \in NodesAt(LineTree, 0) : MulOfSeveral(c.n) /\ c.td >= 2
    /\ Len(SelectSeq(genOut, LAMBDA t : t.type = "Lp")) >= 1

Target == Literals(line)[1]

IsTemporary(id) ==
    Len(id) >= 2 /\ id[1] = "T" /\ \A i \in 2..Len(id) : id[i] \in Digit

IsIndexed(id) == id[Len(id)] = "]" /\ \E i \in 1..Len(id) : id[i] = "["

C10_OperandOrderKept ==
    /\ pc # "start" => ExpressionLeaves(expr) = Literals(line)
    /\ OldRendered => Literals(strOut) = Literals(line)
    /\ pc \in {"newParsed", "done"} => ExprLeaves(stmt) = Literals(line)
    /\ pc = "done" => IdsOf(genOut) = Literals(line)

C10_Witness ==
    /\ pc = "done"
    /\ Len(LineTree.Sub[2].Sub) >= 2
    /\ LineTree.Sub[2].Op \in {<<"+">>, <<"-">>}
    /\ Len(Literals(line)) >= 4
    /\ IdsOf(genOut) = Literals(line)
    /\ Literals(strOut) = Literals(line)

---------------------------------------------------------------------------
(* The properties of whole programs.                                       *)

\* Every literal of the schedule file, and those right of the targets.
AllLiterals == Flatten([i \in 1..Len(alst) |-> Literals(alst[i])])

InputLiterals == Flatten([i \in 1..Len(alst) |-> Tail(Literals(alst[i]))])

\* The array a literal name[...] indexes; << >> for a literal with no index.
BaseName(lit) ==
    IF \E i \in 1..Len(lit) : lit[i] = "["
    THEN SubSeq(lit, 1, (CHOOSE i \in 1..Len(lit) :
                            lit[i] = "[" /\ \A j \in 1..(i - 1) : lit[j] # "[") - 1)
    ELSE << >>

BasesOf(lits) == {BaseName(lits[i]) : i \in 1..Len(lits)} \ {<< >>}

RealArgs == << <<"r", "i">>, <<"i", "i">>, <<"r", "o">>, <<"i", "o">> >>

ComplexArgs == << <<"x", "i">>, <<"x", "o">> >>

\* The constant each line of the C output declares.
DeclaredBy(l) ==
    CASE l = CoutDK -> <<[Name |-> <<"K", "P", "5">>, Value |-> <<"+", "0", ".", "5">>]>>
      [] l = CoutDVK -> <<[Name |-> <<"K", "N", "8">>, Value |-> <<"-", "0", ".", "8">>]>>
      [] OTHER -> << >>

Declared == Flatten([i \in 1..Len(cout) |-> DeclaredBy(cout[i])])

ComplexWithUnitFirst ==
    /\ new.out.args = ComplexArgs
    /\ new.out.constants = <<[Name |-> <<"I">>, Value |-> <<"1", "i">>]>> \o Declared

\* C7 (as claimed): the four-array real signature for a program whose inputs
\* include ri[...] or ii[...]; the two-array complex signature, with I ahead
\* of the extracted constants in their order, for inputs that are only xi[...].
C7_SignatureByRiOrIi ==
    pc = "written" =>
        /\ (BasesOf(InputLiterals) \cap {<<"r", "i">>, <<"i", "i">>} # {}) =>
               new.out.args = RealArgs
        /\ BasesOf(InputLiterals) = {<<"x", "i">>} => ComplexWithUnitFirst

\* C7 (amended): the four-array real signature for a program one of whose
\* leaves is ri[...]; for every other program (inputs that are only xi[...],
\* and also inputs that are only ii[...]) the two-array complex signature
\* with I ahead of the extracted constants in their order.
C7_SignatureByRi ==
    pc = "written" =>
        /\ <<"r", "i">> \in BasesOf(AllLiterals) => new.out.args = RealArgs
        /\ <<"r", "i">> \notin BasesOf(AllLiterals) => ComplexWithUnitFirst

C7_Witness ==
    /\ pc = "written"
    /\ BasesOf(InputLiterals) = {<<"x", "i">>}
    /\ Len(Declared) = 2
    /\ ComplexWithUnitFirst

\* The index of a literal name[digits]; -1 for any other literal.
IndexOfLiteral(lit) ==
    LET b == IndexByte(lit, "[")
    IN IF b >= 1 /\ lit[1] \in Letter /\ IdEnd(lit, 1) = Len(lit) /\ lit[Len(lit)] = "]"
       THEN DecimalValue(SubSeq(lit, b + 2, Len(lit) - 1))
       ELSE -1

Indices == {IndexOfLiteral(AllLiterals[i]) : i \in 1..Len(AllLiterals)} \ {-1}

\* C8: the kernel size N is one plus the greatest bracket index among all
\* leaves name[digits] of all statements, targets and operands alike.
C8_KernelSize ==
    (pc = "written" /\ Indices # {}) =>
        old.max = 1 + (CHOOSE m \in Indices : \A n \in Indices : n <= m)

\* A line of the schedule grammar: one parenthesized operation.
Grammatical(l) ==
    LET p == ParseProgram(l)
    IN p.ok /\ Len(p.Statements) = 1 /\ p.Statements[1].Sub # << >>

\* C9: a line that does not match the grammar (unbalanced parentheses, an
\* unknown operator, an index that is no unsigned integer) aborts the
\* generation: no output is emitted for it.
C9_MalformedAborts ==
    pc = "written" => \A i \in 1..Len(alst) : Grammatical(alst[i])

---------------------------------------------------------------------------
(* The tree of Expression.parse and the nesting of the line.               *)

RECURSIVE CloseOf(_, _, _)
\* The 1-based index of the ")" that closes the parenthesis opened before
\* index i of s, depth parentheses being open at i; 0 when none does.
CloseOf(s, i, depth) ==
    IF i > Len(s) THEN 0
    ELSE IF s[i] = "(" THEN CloseOf(s, i + 1, depth + 1)
    ELSE IF s[i] = ")" THEN IF depth = 1 THEN i ELSE CloseOf(s, i + 1, depth - 1)
    ELSE CloseOf(s, i + 1, depth)

RECURSIVE NestingAt(_, _)
\* The parentheses opened and not closed in the first n characters of s.
NestingAt(s, n) ==
    IF n = 0 THEN 0
    ELSE NestingAt(s, n - 1) + (IF s[n] = "(" THEN 1 ELSE IF s[n] = ")" THEN -1 ELSE 0)

RECURSIVE Mirror(_)
\* The Expression of the same shape as a tree of the schedule grammar.
Mirror(e) ==
    IF e.Sub = << >> THEN [Op |-> << >>, Lit |-> e.Ident, OpIdx |-> 0, Expr |-> << >>]
    ELSE [Op |-> IF e.Op = <<":", "=">> THEN <<"=">> ELSE e.Op,
          Lit |-> << >>,
          OpIdx |-> Len(e.Sub) - 1,
          Expr |-> [k \in 1..Len(e.Sub) |-> Mirror(e.Sub[k])]]

\* C11: for every line of the grammar, each call parse makes at a "("
\* returns the number of characters up to and including the matching ")",
\* and the caller resumes right after that ")"; no character is visited
\* twice and, at the end, every character has been visited once; a call in
\* progress is as deep as the parentheses open at its position; the
\* current-operand index of every node being built is the index of its last
\* operand; and the finished tree has the shape of the line's nesting.
C11_ParseMirrorsNesting ==
    pc \in {"parsing", "parsed"} =>
        /\ \A k \in 1..Len(old.rets) :
              LET r == old.rets[k]
                  close == CloseOf(ParseText, r.open + 2, 1)
              IN /\ ParseText[r.open + 1] = "("
                 /\ close # 0
                 /\ r.ret = close - (r.open + 1)
                 /\ r.resume = close
        /\ \A p \in DOMAIN old.hits : old.hits[p] <= 1
        /\ \A k \in 1..Len(old.stack) :
              LET f == old.stack[k]
              IN /\ f.e.OpIdx = Len(f.e.Expr) - 1
                 /\ k = NestingAt(ParseText, f.base) + 1
        /\ old.stack # << >> =>
              Len(old.stack) = NestingAt(ParseText, TopFrame.base + TopFrame.idx) + 1
        /\ pc = "parsed" =>
              /\ \A p \in DOMAIN old.hits : old.hits[p] = 1
              /\ expr = Parse(line)
              /\ expr = Mirror(LineTree)

\* A line with a parenthesis inside a parenthesis has been parsed.
C11_Witness ==
    /\ pc = "parsed"
    /\ \E j, k \in 1..Len(old.rets) :
          /\ old.rets[j].open > old.rets[k].open
          /\ old.rets[j].resume < old.rets[k].resume
    /\ expr = Mirror(LineTree)

====
